---- MODULE Spec2Model ----
(***************************************************************************)
(* Model of target-lexicon's data_model.rs: the Size value type and the    *)
(* CDataModel classification with its seven size queries.                  *)
(*                                                                         *)
(* A caller holds one CDataModel value and one Size value and calls the    *)
(* accessors on them in any order, any number of times.  The state keeps,  *)
(* per accessor, the result of its first call and of its latest call.      *)
(***************************************************************************)
EXTENDS Integers, FiniteSets, TLC

\* Largest number of accessor calls followed in one behaviour.
MaxCalls == 10

--------------------------------------------------------------------------
\* enum Size
Size == {"U8", "U16", "U32", "U64"}

\* enum CDataModel
CDataModel == {"LP32", "ILP32", "LLP64", "LP64", "ILP64"}

\* The seven size queries of impl CDataModel.
ModelAccessors ==
    {"pointer_width", "short_size", "int_size", "long_size",
     "long_long_size", "float_size", "double_size"}

\* The two projections of impl Size.
SizeAccessors == {"bits", "bytes"}

Accessors == ModelAccessors \cup SizeAccessors

VARIABLES
    model,   \* the CDataModel value the caller queries
    size,    \* the Size value the caller queries
    first,   \* first[a]: {} before a's first call, then {its result}
    ret,     \* ret[a]: {} before a's first call, then {its latest result}
    ncalls   \* number of accessor calls made so far

vars == <<model, size, first, ret, ncalls>>

--------------------------------------------------------------------------
\* Size::bits
bits(s) ==
    CASE s = "U8"  -> 8
      [] s = "U16" -> 16
      [] s = "U32" -> 32
      [] s = "U64" -> 64

\* Size::bytes with U32 mapped to 2 (a mistyped table entry).
bytes_U32_as_2(s) ==
    CASE s = "U8"  -> 1
      [] s = "U16" -> 2
      [] s = "U32" -> 2
      [] s = "U64" -> 8

\* Size::bytes
bytes(s) ==
    CASE s = "U8"  -> 1
      [] s = "U16" -> 2
      [] s = "U32" -> 4
      [] s = "U64" -> 8

\* pointer_width with LLP64 put in the 32-bit arm.
pointer_width_LLP64_as_32(m) ==
    CASE m \in {"LP32", "ILP32", "LLP64"} -> "U32"
      [] m \in {"LP64", "ILP64"} -> "U64"

\* CDataModel::pointer_width
pointer_width(m) ==
    CASE m \in {"LP32", "ILP32"} -> "U32"
      [] m \in {"LLP64", "LP64", "ILP64"} -> "U64"

\* short_size with LP32 widened to 32 bits.
short_size_LP32_as_32(m) ==
    CASE m = "LP32" -> "U32"
      [] m \in {"ILP32", "LLP64", "LP64", "ILP64"} -> "U16"

\* CDataModel::short_size
short_size(m) ==
    CASE m \in {"LP32", "ILP32", "LLP64", "LP64", "ILP64"} -> "U16"

\* CDataModel::int_size
int_size(m) ==
    CASE m = "LP32" -> "U16"
      [] m \in {"ILP32", "LLP64", "LP64", "ILP64"} -> "U32"

\* long_size with LP32 put at 16 bits.
long_size_LP32_as_16(m) ==
    CASE m = "LP32" -> "U16"
      [] m \in {"ILP32", "LLP64", "ILP64"} -> "U32"
      [] m = "LP64" -> "U64"

\* long_size with LLP64 put in the LP64 arm.
long_size_LLP64_as_64(m) ==
    CASE m \in {"LP32", "ILP32", "ILP64"} -> "U32"
      [] m \in {"LLP64", "LP64"} -> "U64"

\* long_size answering from a slot shared with int_size once that is filled.
long_size_stale(m) ==
    IF ret["int_size"] # {}
    THEN CHOOSE r \in ret["int_size"] : TRUE
    ELSE CASE m \in {"LP32", "ILP32", "LLP64", "ILP64"} -> "U32"
           [] m = "LP64" -> "U64"

\* CDataModel::long_size
long_size(m) ==
    CASE m \in {"LP32", "ILP32", "LLP64", "ILP64"} -> "U32"
      [] m = "LP64" -> "U64"

\* CDataModel::long_long_size
long_long_size(m) ==
    CASE m \in {"LP32", "ILP32", "LLP64", "ILP64", "LP64"} -> "U64"

\* float_size following the width of int.
float_size_as_int(m) ==
    CASE m = "LP32" -> "U16"
      [] m \in {"ILP32", "LLP64", "LP64", "ILP64"} -> "U32"

\* CDataModel::float_size
float_size(m) == "U32"

\* CDataModel::double_size
double_size(m) == "U64"

--------------------------------------------------------------------------
\* One accessor call returning r: the caller receives r; the receiver
\* (self by copy for Size, &self for CDataModel) is not written.
Call(a, r) ==
    /\ ncalls < MaxCalls
    /\ ncalls' = ncalls + 1
    /\ ret' = [ret EXCEPT ![a] = {r}]
    /\ first' = IF first[a] = {} THEN [first EXCEPT ![a] = {r}] ELSE first
    /\ UNCHANGED <<model, size>>

CallBits == Call("bits", bits(size))

CallBytes == Call("bytes", bytes(size))

CallPointerWidth == Call("pointer_width", pointer_width(model))

CallShortSize == Call("short_size", short_size(model))

CallIntSize == Call("int_size", int_size(model))

CallLongSize == Call("long_size", long_size(model))

CallLongLongSize == Call("long_long_size", long_long_size(model))

CallFloatSize == Call("float_size", float_size(model))

CallDoubleSize == Call("double_size", double_size(model))

Init ==
    /\ model \in CDataModel
    /\ size \in Size
    /\ first = [a \in Accessors |-> {}]
    /\ ret = [a \in Accessors |-> {}]
    /\ ncalls = 0

Next ==
    \/ CallBits
    \/ CallBytes
    \/ CallPointerWidth
    \/ CallShortSize
    \/ CallIntSize
    \/ CallLongSize
    \/ CallLongLongSize
    \/ CallFloatSize
    \/ CallDoubleSize

Spec == Init /\ [][Next]_vars

--------------------------------------------------------------------------
TypeOK ==
    /\ model \in CDataModel
    /\ size \in Size
    /\ ncalls \in 0..MaxCalls
    /\ \A a \in ModelAccessors : ret[a] \subseteq Size /\ first[a] \subseteq Size
    /\ \A a \in SizeAccessors : ret[a] \subseteq 0..255 /\ first[a] \subseteq 0..255

\* Every accessor of the given set has returned at least once.
Called(as) == \A a \in as : ret[a] # {}

\* The bit widths the caller has received for accessor a (empty or one value).
RetBits(a) == {bits(r) : r \in ret[a]}

--------------------------------------------------------------------------
\* The width table of the specification, in bits, per data model:
\* (pointer, short, int, long, long long, float, double).
SpecRow(p, sh, i, l, ll, f, d) ==
    [pointer_width |-> p, short_size |-> sh, int_size |-> i, long_size |-> l,
     long_long_size |-> ll, float_size |-> f, double_size |-> d]

SpecTable ==
    [LP32  |-> SpecRow(32, 16, 16, 32, 64, 32, 64),
     ILP32 |-> SpecRow(32, 16, 32, 32, 64, 32, 64),
     LLP64 |-> SpecRow(64, 16, 32, 32, 64, 32, 64),
     LP64  |-> SpecRow(64, 16, 32, 64, 64, 32, 64),
     ILP64 |-> SpecRow(64, 16, 64, 64, 64, 32, 64)]

\* C1: every size query of every data model returns the width that the
\* specification's table gives for that model and C type (so ILP64's int is
\* 64 bits wide).
C1_MatchesSpecTable ==
    \A a \in ModelAccessors : \A r \in ret[a] : bits(r) = SpecTable[model][a]

\* C2: on ILP64, int_size, long_size and pointer_width all return U64, as
\* the variant's documentation says.
C2_ILP64AllSixtyFour ==
    model = "ILP64" =>
        \A a \in {"int_size", "long_size", "pointer_width"} :
            ret[a] \subseteq {"U64"}

\* C3: for every data model the returned widths are ordered
\* short <= int <= long <= long long.
C3_WidthsOrdered ==
    /\ \A x \in RetBits("short_size") : \A y \in RetBits("int_size") : x <= y
    /\ \A x \in RetBits("int_size") : \A y \in RetBits("long_size") : x <= y
    /\ \A x \in RetBits("long_size") : \A y \in RetBits("long_long_size") : x <= y

\* All four integer queries have returned on LP32 (16, 16, 32, 64).
C3_Witness ==
    /\ model = "LP32"
    /\ Called({"short_size", "int_size", "long_size", "long_long_size"})

\* C4: for every data model the returned widths meet the C minimums:
\* short >= 16, int >= 16, long >= 32, long long >= 64 bits.
C4_MinimumWidths ==
    /\ \A x \in RetBits("short_size") : x >= 16
    /\ \A x \in RetBits("int_size") : x >= 16
    /\ \A x \in RetBits("long_size") : x >= 32
    /\ \A x \in RetBits("long_long_size") : x >= 64

\* All four integer queries have returned on the narrowest model.
C4_Witness ==
    /\ model = "LP32"
    /\ ret["short_size"] = {"U16"}
    /\ ret["int_size"] = {"U16"}
    /\ ret["long_size"] = {"U32"}
    /\ ret["long_long_size"] = {"U64"}

\* C5: pointer_width returns U32 exactly for LP32 and ILP32 and U64 exactly
\* for LLP64, LP64 and ILP64, and nothing else.
C5_PointerWidthGrouping ==
    \A r \in ret["pointer_width"] :
        /\ r \in {"U32", "U64"}
        /\ r = "U32" <=> model \in {"LP32", "ILP32"}
        /\ r = "U64" <=> model \in {"LLP64", "LP64", "ILP64"}

\* pointer_width has returned on the Win64 model.
C5_Witness == model = "LLP64" /\ ret["pointer_width"] = {"U64"}

\* C6: long_size returns U64 (8 bytes) on LP64 and U32 (4 bytes) on LLP64,
\* and pointer_width returns a 64-bit Size on both.
C6_LongDiverges ==
    /\ model = "LP64" =>
          \A r \in ret["long_size"] : r = "U64" /\ bytes(r) = 8
    /\ model = "LLP64" =>
          \A r \in ret["long_size"] : r = "U32" /\ bytes(r) = 4
    /\ model \in {"LP64", "LLP64"} =>
          \A r \in ret["pointer_width"] : r = "U64" /\ bits(r) = 64

\* long_size and pointer_width have both returned on LLP64.
C6_Witness ==
    /\ model = "LLP64"
    /\ Called({"long_size", "pointer_width"})

\* C7: bits() returns 8, 16, 32, 64 for U8, U16, U32, U64, a multiple of 8,
\* and bytes() is bits() / 8.
C7_BitsAndBytes ==
    /\ \A b \in ret["bits"] :
          /\ b = [U8 |-> 8, U16 |-> 16, U32 |-> 32, U64 |-> 64][size]
          /\ b % 8 = 0
    /\ \A b \in ret["bits"] : \A y \in ret["bytes"] :
          /\ y = b \div 8
          /\ y * 8 = b

\* bits() and bytes() have both returned on U32.
C7_Witness == size = "U32" /\ Called({"bits", "bytes"})

\* C8: float_size returns U32 and double_size returns U64 on every data
\* model.
C8_FloatDoubleFixed ==
    /\ ret["float_size"] \subseteq {"U32"}
    /\ ret["double_size"] \subseteq {"U64"}

\* Both floating-point queries have returned on the 16-bit-int model.
C8_Witness == model = "LP32" /\ Called({"float_size", "double_size"})

C10_Injective ==
    Called({"pointer_width", "short_size", "int_size", "long_size",
            "long_long_size"}) =>
        \A m2 \in CDataModel \ {model} :
            <<ret["pointer_width"], ret["short_size"], ret["int_size"],
              ret["long_size"], ret["long_long_size"]>>
            # <<{pointer_width(m2)}, {short_size(m2)}, {int_size(m2)},
                {long_size(m2)}, {long_long_size(m2)}>>

====
